---- MODULE Spec2Model ----
(***************************************************************************)
(* Model of customcolour/cmap.py: import, grayscale, inversion and blending *)
(* of Matplotlib colormaps, and the registry of custom colormaps built at  *)
(* module load.                                                            *)
(*                                                                         *)
(* Colour channels are fixed-point: the float 1.0 is the integer Scale.    *)
(* Colormap objects live on a heap (id -> object) because their name is a  *)
(* mutable attribute (populate_maps, add_white and add_black assign it).   *)
(* Strings that the code slices or concatenates (colormap names) are       *)
(* sequences of one-character strings.                                     *)
(***************************************************************************)
EXTENDS Integers, Sequences, FiniteSets, TLC

VARIABLES pc, heap, registry, namespace, call, result

vars == <<pc, heap, registry, namespace, call, result>>

----------------------------------------------------------------------------
(* Bounds of the explored inputs *)

Scale == 255
MaxColor == 6
MaxBlend == 5
LocDen == 4

(* Program constants *)

DefaultNblend == 28
LutSize == 256

----------------------------------------------------------------------------
(* Values *)

White == <<Scale, Scale, Scale, Scale>>
Black == <<0, 0, 0, Scale>>
Yellow == <<Scale, Scale, 0, Scale>>

jetName == <<"j", "e", "t">>
viridisName == <<"v", "i", "r", "i", "d", "i", "s">>
viridis_rName == viridisName \o <<"_", "r">>
wiridisName == <<"w", "i", "r", "i", "d", "i", "s">>
otherName == <<"n", "o", "n", "e">>

Reverse(s) == [i \in 1..Len(s) |-> s[Len(s) + 1 - i]]

(* Stand-ins for Matplotlib's colour data of 'jet' and 'viridis' *)
jetColors ==
    << <<0, 0, 128, Scale>>, <<0, 128, Scale, Scale>>, <<128, Scale, 128, Scale>>,
       <<Scale, 128, 0, Scale>>, <<128, 0, 0, Scale>> >>

viridisColors ==
    << <<68, 1, 84, Scale>>, <<49, 104, 142, Scale>>,
       <<53, 183, 121, Scale>>, <<253, 231, 37, Scale>> >>

Colormap(name, colors) == [name |-> name, N |-> LutSize, colors |-> colors]

(* The registry plt.cm.get_cmap resolves names against, and its objects *)
BuiltinHeap ==
    (1 :> Colormap(jetName, jetColors))
    @@ (2 :> Colormap(viridisName, viridisColors))
    @@ (3 :> Colormap(viridis_rName, Reverse(viridisColors)))

BuiltinRegistry == (jetName :> 1) @@ (viridisName :> 2) @@ (viridis_rName :> 3)

----------------------------------------------------------------------------
(* numpy and Matplotlib primitives the module calls *)

(* np.linspace(0, 1, n) for n >= 0, as exact fractions <<num, den>> *)
UnitLinspace(n) ==
    [i \in 1..n |-> IF n = 1 THEN <<0, 1>> ELSE <<i - 1, n - 1>>]

(* np.linspace(a, b, n) for n >= 0 on one channel: n = 1 gives the start   *)
(* alone, and for n > 1 the last sample is set to the stop value           *)
Linspace(a, b, n) ==
    [i \in 1..n |->
        IF n > 1 /\ i = n THEN b
        ELSE IF n = 1 THEN a
        ELSE a + ((i - 1) * (b - a)) \div (n - 1)]

(* Entry idx (0-based) of the lookup table of N entries that Matplotlib    *)
(* interpolates from evenly spaced colours                                 *)
LutEntry(cm, idx) ==
    LET n == Len(cm.colors)
        k == (idx * (n - 1)) \div (cm.N - 1)
        r == idx * (n - 1) - k * (cm.N - 1)
    IN  IF k >= n - 1 THEN cm.colors[n]
        ELSE [c \in 1..4 |->
                cm.colors[k + 1][c]
                + (r * (cm.colors[k + 2][c] - cm.colors[k + 1][c])) \div (cm.N - 1)]

(* cm(X) for an array X of floats in [0, 1]: index int(x * N), x = 1 -> N-1 *)
CmCall(cm, xs) ==
    [i \in 1..Len(xs) |->
        LET x == xs[i]
            idx == IF x[1] = x[2] THEN cm.N - 1 ELSE (x[1] * cm.N) \div x[2]
        IN  LutEntry(cm, idx)]

(* Python 3 round() of the fraction num/den, den > 0: half to even *)
Round(num, den) ==
    LET f == num \div den
        r == num % den
    IN  IF 2 * r < den THEN f
        ELSE IF 2 * r > den THEN f + 1
        ELSE IF f % 2 = 0 THEN f ELSE f + 1

(* Largest s with s * s <= x *)
ISqrt(x) == CHOOSE s \in 0..(Scale + 1) : s * s <= x /\ (s + 1) * (s + 1) > x

NewId(h) == (CHOOSE m \in DOMAIN h : \A j \in DOMAIN h : j <= m) + 1

(* col.LinearSegmentedColormap.from_list(name, clist): a new object *)
from_list(h, name, clist) ==
    [id |-> NewId(h), heap |-> (NewId(h) :> Colormap(name, clist)) @@ h]

----------------------------------------------------------------------------
(* Outcome of a call: the exception raised (err = "none" if it returned),   *)
(* the returned object, the table handed to from_list, and the locals       *)

NoResult ==
    [err |-> "none", msg |-> "", id |-> 0, clist |-> <<>>, ncolor |-> 0,
     norig |-> 0, nmid |-> 0, nfwd |-> 0, nbak |-> 0, branch |-> "none"]

Raise(r, err, msg) == [r EXCEPT !.err = err, !.msg = msg]

StrArg(name) == [isstr |-> TRUE, s |-> name, id |-> 0]
ObjArg(id) == [isstr |-> FALSE, s |-> <<>>, id |-> id]

StrLoc(s) == [isstr |-> TRUE, s |-> s, num |-> 0]
NumLoc(k) == [isstr |-> FALSE, s |-> "", num |-> k]

Given(n) == [isnone |-> FALSE, n |-> n]
None == [isnone |-> TRUE, n |-> 0]

NoCall ==
    [op |-> "none", cmap |-> ObjArg(0), rgba |-> Black, nblend |-> 0,
     loc |-> StrLoc(""), ncolor |-> None]

----------------------------------------------------------------------------
(* The functions of cmap.py.  Each takes the heap h it runs on and gives    *)
(* [res |-> outcome, heap |-> heap afterwards].                             *)

(* Variant: names are also resolved against the module's custom maps *)
import_colormap_custom(cmap) ==
    IF cmap.isstr
    THEN IF cmap.s \in DOMAIN registry
         THEN [err |-> "none", msg |-> "", id |-> registry[cmap.s]]
         ELSE IF cmap.s \in DOMAIN namespace
         THEN [err |-> "none", msg |-> "", id |-> namespace[cmap.s]]
         ELSE [err |-> "ValueError", msg |-> "colormap is not recognized", id |-> 0]
    ELSE [err |-> "none", msg |-> "", id |-> cmap.id]

(* plt.cm.get_cmap(name) gives the registered object itself, or raises a    *)
(* ValueError for a name that is not registered                             *)
import_colormap(cmap) ==
    IF cmap.isstr
    THEN IF cmap.s \in DOMAIN registry
         THEN [err |-> "none", msg |-> "", id |-> registry[cmap.s]]
         ELSE [err |-> "ValueError", msg |-> "colormap is not recognized", id |-> 0]
    ELSE [err |-> "none", msg |-> "", id |-> cmap.id]

(* sqrt(0.299 r^2 + 0.587 g^2 + 0.114 b^2) in fixed point *)
rgba_lightness(rgba) ==
    ISqrt((299 * rgba[1] * rgba[1] + 587 * rgba[2] * rgba[2]
           + 114 * rgba[3] * rgba[3]) \div 1000)

grayscale_colormap(h, cmap, ncolor) ==
    LET imp == import_colormap(cmap)
    IN  IF imp.err # "none"
        THEN [res |-> Raise(NoResult, imp.err, imp.msg), heap |-> h]
        ELSE
        LET cm == h[imp.id]
            nc == IF ncolor.isnone THEN cm.N ELSE ncolor.n
            r0 == [NoResult EXCEPT !.ncolor = nc]
        IN  IF nc < 0
            THEN [res |-> Raise(r0, "ValueError", "number of samples must be non-negative"),
                  heap |-> h]
            ELSE
            LET clisti == CmCall(cm, UnitLinspace(nc))
                clist == [i \in 1..nc |->
                            LET l == rgba_lightness(clisti[i])
                            IN  <<l, l, l, clisti[i][4]>>]
                o == from_list(h, <<"g">> \o cm.name, clist)
            IN  [res |-> [r0 EXCEPT !.id = o.id, !.clist = clist], heap |-> o.heap]

invert_colormap(h, cmap, ncolor) ==
    LET imp == import_colormap(cmap)
    IN  IF imp.err # "none"
        THEN [res |-> Raise(NoResult, imp.err, imp.msg), heap |-> h]
        ELSE
        LET cm == h[imp.id]
            nc == IF ncolor.isnone THEN cm.N ELSE ncolor.n
            r0 == [NoResult EXCEPT !.ncolor = nc]
        IN  IF nc < 0
            THEN [res |-> Raise(r0, "ValueError", "number of samples must be non-negative"),
                  heap |-> h]
            ELSE
            LET clisti == CmCall(cm, UnitLinspace(nc))
                clist == [i \in 1..nc |->
                            <<Scale - clisti[i][1], Scale - clisti[i][2],
                              Scale - clisti[i][3], clisti[i][4]>>]
                o == from_list(h, <<"i">> \o cm.name, clist)
            IN  [res |-> [r0 EXCEPT !.id = o.id, !.clist = clist], heap |-> o.heap]

(* Variant: the two colours exchanged *)
blend_rgba_swapped(rgba1, rgba2, npts) ==
    [i \in 1..npts |-> [c \in 1..4 |-> Linspace(rgba2[c], rgba1[c], npts)[i]]]

(* The rows of blend_rgba for npts >= 0; np.linspace raises a ValueError    *)
(* for npts < 0                                                             *)
blend_rgba(rgba1, rgba2, npts) ==
    [i \in 1..npts |-> [c \in 1..4 |-> Linspace(rgba1[c], rgba2[c], npts)[i]]]

(* nfwd and nbak of the mid branch (Python // and % floor) *)
nfwd(nblend) == (nblend + 1) \div 2

(* Variant: the backward length without the remainder term *)
nbak_half(nblend) == (nblend + 1) \div 2

nbak(nblend) == ((nblend + 1) \div 2) + ((nblend + 1) % 2)

IsStart(loc) == (loc.isstr /\ loc.s = "start") \/ (~loc.isstr /\ loc.num = 0)

IsEnd(loc) == (loc.isstr /\ loc.s = "end") \/ (~loc.isstr /\ loc.num = LocDen)

add_rgba(h, cmap, rgba, nblend, loc, ncolor) ==
    LET imp == import_colormap(cmap)
    IN  IF imp.err # "none"
        THEN [res |-> Raise(NoResult, imp.err, imp.msg), heap |-> h]
        ELSE
        LET cm == h[imp.id]
            nc == IF ncolor.isnone THEN cm.N ELSE ncolor.n
            norig == nc - nblend
            r0 == [NoResult EXCEPT !.ncolor = nc, !.norig = norig]
            Fail(r, err, msg) == [res |-> Raise(r, err, msg), heap |-> h]
            Done(r, clist) ==
                LET o == from_list(h, <<"a">> \o cm.name, clist)
                IN  [res |-> [r EXCEPT !.id = o.id, !.clist = clist], heap |-> o.heap]
        IN  IF norig < 0
            THEN Fail(r0, "ValueError", "number of samples must be non-negative")
            ELSE
            LET clisti == CmCall(cm, UnitLinspace(norig))
            IN  IF IsStart(loc)
                THEN LET r1 == [r0 EXCEPT !.branch = "start"]
                     IN  IF norig = 0
                         THEN Fail(r1, "IndexError", "index 0 is out of bounds")
                         ELSE IF nblend < 0
                         THEN Fail(r1, "ValueError", "number of samples must be non-negative")
                         ELSE Done(r1, blend_rgba(rgba, clisti[1], nblend) \o clisti)
                ELSE IF IsEnd(loc)
                THEN LET r1 == [r0 EXCEPT !.branch = "end"]
                     IN  IF norig = 0
                         THEN Fail(r1, "IndexError", "index -1 is out of bounds")
                         ELSE IF nblend < 0
                         THEN Fail(r1, "ValueError", "number of samples must be non-negative")
                         ELSE Done(r1, clisti \o blend_rgba(clisti[norig], rgba, nblend))
                ELSE IF loc.isstr /\ loc.s # "mid"
                THEN Fail(r0, "TypeError", "'>' not supported between 'str' and 'int'")
                ELSE IF ~loc.isstr /\ ~(loc.num > 0 /\ loc.num < LocDen)
                THEN Fail(r0, "ValueError", "unrecognized value for 'loc'")
                ELSE
                LET nmid == IF loc.isstr THEN norig \div 2
                            ELSE Round(norig * loc.num, LocDen)
                    r1 == [r0 EXCEPT !.branch = "mid", !.nmid = nmid,
                                     !.nfwd = nfwd(nblend), !.nbak = nbak(nblend)]
                    clstart == SubSeq(clisti, 1, nmid)
                    clend == SubSeq(clisti, nmid + 1, norig)
                IN  IF clstart = <<>>
                    THEN Fail(r1, "IndexError", "index -1 is out of bounds")
                    ELSE IF r1.nbak < 0
                    THEN Fail(r1, "ValueError", "number of samples must be non-negative")
                    ELSE IF clend = <<>>
                    THEN Fail(r1, "IndexError", "index 0 is out of bounds")
                    ELSE IF r1.nfwd < 0
                    THEN Fail(r1, "ValueError", "number of samples must be non-negative")
                    ELSE
                    LET clmid1 == blend_rgba(clstart[nmid], rgba, r1.nbak)
                        fwd == blend_rgba(rgba, clend[1], r1.nfwd)
                        clmid2 == SubSeq(fwd, 2, Len(fwd))
                    IN  Done(r1, clstart \o clmid1 \o clmid2 \o clend)

(* Variant: the marker is prepended without dropping the 'a' *)
add_white_keep(h, cmap, nblend, loc, ncolor) ==
    LET a == add_rgba(h, cmap, White, nblend, loc, ncolor)
    IN  IF a.res.err # "none" THEN a
        ELSE [a EXCEPT !.heap[a.res.id].name = <<"w">> \o @]

(* cm.name = 'w' + cm.name[1:] on the object add_rgba returned *)
add_white(h, cmap, nblend, loc, ncolor) ==
    LET a == add_rgba(h, cmap, White, nblend, loc, ncolor)
    IN  IF a.res.err # "none" THEN a
        ELSE [a EXCEPT !.heap[a.res.id].name =
                            <<"w">> \o SubSeq(@, 2, Len(@))]

add_black(h, cmap, nblend, loc, ncolor) ==
    LET a == add_rgba(h, cmap, Black, nblend, loc, ncolor)
    IN  IF a.res.err # "none" THEN a
        ELSE [a EXCEPT !.heap[a.res.id].name =
                            <<"b">> \o SubSeq(@, 2, Len(@))]

(* Custom.populate_maps: maps = dict(wiridis = add_white('viridis_r')),     *)
(* every map renamed to its key                                             *)
populate_maps(h) ==
    LET w == add_white(h, StrArg(viridis_rName), DefaultNblend, StrLoc("start"), None)
    IN  [maps |-> (wiridisName :> w.res.id),
         heap |-> [w.heap EXCEPT ![w.res.id].name = wiridisName]]

----------------------------------------------------------------------------
(* Inputs *)

TargetColours == {White, Black, Yellow}

CmapArgs ==
    {StrArg(jetName), StrArg(viridis_rName), StrArg(wiridisName), ObjArg(1)}
    \cup {ObjArg(namespace[k]) : k \in DOMAIN namespace}

Nblends == (-1..MaxBlend) \cup {DefaultNblend}

Ncolors == {Given(n) : n \in 1..MaxColor} \cup {None}

Locs ==
    {StrLoc("start"), StrLoc("end"), StrLoc("mid"), StrLoc("middle")}
    \cup {NumLoc(k) : k \in -1..(LocDen + 1)}

----------------------------------------------------------------------------
(* State machine *)

Init ==
    /\ pc = "import"
    /\ heap = BuiltinHeap
    /\ registry = BuiltinRegistry
    /\ namespace = << >>
    /\ call = NoCall
    /\ result = NoResult

(* localcustom = Custom(); locals().update(localcustom.maps) *)
ModuleInit ==
    /\ pc = "import"
    /\ LET p == populate_maps(heap)
       IN  /\ heap' = p.heap
           /\ namespace' = p.maps
    /\ pc' = "ready"
    /\ UNCHANGED <<registry, call, result>>

ImportColormap ==
    /\ pc = "ready"
    /\ \E cmap \in CmapArgs \cup {StrArg(otherName)} :
          LET imp == import_colormap(cmap)
          IN  /\ call' = [NoCall EXCEPT !.op = "import_colormap", !.cmap = cmap]
              /\ result' = [NoResult EXCEPT !.err = imp.err, !.msg = imp.msg,
                                            !.id = imp.id]
    /\ pc' = "returned"
    /\ UNCHANGED <<heap, registry, namespace>>

GrayscaleColormap ==
    /\ pc = "ready"
    /\ \E cmap \in CmapArgs, ncolor \in Ncolors :
          LET o == grayscale_colormap(heap, cmap, ncolor)
          IN  /\ call' = [NoCall EXCEPT !.op = "grayscale_colormap", !.cmap = cmap,
                                        !.ncolor = ncolor]
              /\ result' = o.res
              /\ heap' = o.heap
    /\ pc' = "returned"
    /\ UNCHANGED <<registry, namespace>>

InvertColormap ==
    /\ pc = "ready"
    /\ \E cmap \in CmapArgs, ncolor \in Ncolors :
          LET o == invert_colormap(heap, cmap, ncolor)
          IN  /\ call' = [NoCall EXCEPT !.op = "invert_colormap", !.cmap = cmap,
                                        !.ncolor = ncolor]
              /\ result' = o.res
              /\ heap' = o.heap
    /\ pc' = "returned"
    /\ UNCHANGED <<registry, namespace>>

AddRgba ==
    /\ pc = "ready"
    /\ \E cmap \in CmapArgs, rgba \in TargetColours, nblend \in Nblends,
          loc \in Locs, ncolor \in Ncolors :
          LET o == add_rgba(heap, cmap, rgba, nblend, loc, ncolor)
          IN  /\ call' = [op |-> "add_rgba", cmap |-> cmap, rgba |-> rgba,
                          nblend |-> nblend, loc |-> loc, ncolor |-> ncolor]
              /\ result' = o.res
              /\ heap' = o.heap
    /\ pc' = "returned"
    /\ UNCHANGED <<registry, namespace>>

AddWhite ==
    /\ pc = "ready"
    /\ \E cmap \in CmapArgs, nblend \in Nblends, loc \in Locs, ncolor \in Ncolors :
          LET o == add_white(heap, cmap, nblend, loc, ncolor)
          IN  /\ call' = [op |-> "add_white", cmap |-> cmap, rgba |-> White,
                          nblend |-> nblend, loc |-> loc, ncolor |-> ncolor]
              /\ result' = o.res
              /\ heap' = o.heap
    /\ pc' = "returned"
    /\ UNCHANGED <<registry, namespace>>

AddBlack ==
    /\ pc = "ready"
    /\ \E cmap \in CmapArgs, nblend \in Nblends, loc \in Locs, ncolor \in Ncolors :
          LET o == add_black(heap, cmap, nblend, loc, ncolor)
          IN  /\ call' = [op |-> "add_black", cmap |-> cmap, rgba |-> Black,
                          nblend |-> nblend, loc |-> loc, ncolor |-> ncolor]
              /\ result' = o.res
              /\ heap' = o.heap
    /\ pc' = "returned"
    /\ UNCHANGED <<registry, namespace>>

(* The caller drops the returned colormap; the registry and the module      *)
(* attributes keep theirs                                                   *)
Return ==
    /\ pc = "returned"
    /\ heap' = [id \in {i \in DOMAIN heap :
                          \/ \E k \in DOMAIN registry : registry[k] = i
                          \/ \E k \in DOMAIN namespace : namespace[k] = i}
                  |-> heap[id]]
    /\ call' = NoCall
    /\ result' = NoResult
    /\ pc' = "ready"
    /\ UNCHANGED <<registry, namespace>>

Next ==
    \/ ModuleInit
    \/ ImportColormap
    \/ GrayscaleColormap
    \/ InvertColormap
    \/ AddRgba
    \/ AddWhite
    \/ AddBlack
    \/ Return

Spec == Init /\ [][Next]_vars

----------------------------------------------------------------------------
(* Properties *)

IsBlendOp == call.op \in {"add_rgba", "add_white", "add_black"}

(* The colormap argument resolved: lines 179-181 ran and ncolor is known *)
Imported == ~call.cmap.isstr \/ call.cmap.s \in DOMAIN registry

Returned == pc = "returned" /\ result.err = "none"

IsFraction(loc) == ~loc.isstr /\ loc.num > 0 /\ loc.num < LocDen

(* C1: whenever add_rgba returns with 0 <= nblend < ncolor, in every        *)
(* location branch, the table handed to from_list has exactly ncolor rows.  *)
C1_RowCount ==
    (Returned /\ IsBlendOp /\ call.nblend >= 0 /\ call.nblend < result.ncolor)
        => Len(result.clist) = result.ncolor

(* C2: with loc = 'end' (or 1) and 1 <= nblend < ncolor, the last row of    *)
(* the table equals the target colour.                                      *)
C2_EndIsTarget ==
    (Returned /\ IsBlendOp /\ IsEnd(call.loc)
     /\ call.nblend >= 1 /\ call.nblend < result.ncolor)
        => result.clist[Len(result.clist)] = call.rgba

(* C3 as stated: with loc = 'start' (or 0) and any nblend < ncolor, the     *)
(* first row of the table equals the target colour.                         *)
C3_StartIsTarget_Original ==
    (Returned /\ IsBlendOp /\ IsStart(call.loc) /\ call.nblend < result.ncolor)
        => result.clist[1] = call.rgba

(* C3 amended: with loc = 'start' (or 0) and 1 <= nblend < ncolor, the      *)
(* first row of the table equals the target colour.                         *)
C3_StartIsTarget ==
    (Returned /\ IsBlendOp /\ IsStart(call.loc)
     /\ call.nblend >= 1 /\ call.nblend < result.ncolor)
        => result.clist[1] = call.rgba

C3_Witness ==
    /\ Returned
    /\ call.op = "add_black"
    /\ call.cmap = StrArg(jetName)
    /\ call.loc = StrLoc("start")
    /\ call.nblend = DefaultNblend
    /\ call.ncolor = None
    /\ Len(result.clist) = LutSize
    /\ result.clist[1] = Black

(* C4: whenever add_rgba returns with loc = 'mid', the row at index         *)
(* ncolor // 2 of the table equals the target colour.                       *)
C4_MidIsTarget ==
    (Returned /\ IsBlendOp /\ call.loc = StrLoc("mid"))
        => /\ Len(result.clist) > result.ncolor \div 2
           /\ result.clist[(result.ncolor \div 2) + 1] = call.rgba

(* C5: add_rgba raises a ValueError whenever nblend >= ncolor, for every    *)
(* loc.                                                                     *)
C5_NonPositiveNorig ==
    (pc = "returned" /\ IsBlendOp /\ Imported /\ call.nblend >= result.ncolor)
        => result.err = "ValueError"

(* C6: with nblend < ncolor, add_rgba raises the ValueError 'unrecognized   *)
(* value for loc' for every loc that is none of 'start', 'end', 'mid' or a  *)
(* number in [0, 1].                                                        *)
C6_UnrecognizedLoc ==
    (pc = "returned" /\ IsBlendOp /\ Imported /\ call.nblend < result.ncolor
     /\ \/ call.loc.isstr /\ call.loc.s \notin {"start", "end", "mid"}
        \/ ~call.loc.isstr /\ (call.loc.num < 0 \/ call.loc.num > LocDen))
        => /\ result.err = "ValueError"
           /\ result.msg = "unrecognized value for 'loc'"

Marker(op) ==
    CASE op = "grayscale_colormap" -> <<"g">>
      [] op = "invert_colormap" -> <<"i">>
      [] op = "add_rgba" -> <<"a">>
      [] op = "add_white" -> <<"w">>
      [] op = "add_black" -> <<"b">>

InputId(c) == IF c.cmap.isstr THEN registry[c.cmap.s] ELSE c.cmap.id

(* C8: every transform that returns names its result by the marker of the   *)
(* transform ('g', 'i', 'a', 'w', 'b') followed by the whole name of the    *)
(* input gradient, and leaves the name of the input gradient unchanged.     *)
C8_Naming ==
    [][(pc = "ready" /\ pc' = "returned" /\ result'.err = "none"
        /\ call'.op # "import_colormap")
          => /\ heap'[result'.id].name = Marker(call'.op) \o heap[InputId(call')].name
             /\ result'.id # InputId(call')
             /\ heap'[InputId(call')].name = heap[InputId(call')].name]_vars

C8_Witness ==
    /\ Returned
    /\ call.op = "add_white"
    /\ call.cmap = ObjArg(namespace[wiridisName])
    /\ heap[result.id].name = <<"w">> \o wiridisName
    /\ heap[namespace[wiridisName]].name = wiridisName

(* C9 as stated: in the mid branch, for nblend >= 1, nbak = ceil(nblend/2)  *)
(* and nfwd = floor(nblend/2).                                              *)
C9_SplitLengths_Original ==
    (pc = "returned" /\ IsBlendOp /\ result.branch = "mid" /\ call.nblend >= 1)
        => /\ result.nbak = (call.nblend + 1) \div 2
           /\ result.nfwd = call.nblend \div 2

(* C9 amended: in the mid branch, for nblend >= 1, nfwd = ceil(nblend/2)    *)
(* and nbak = floor(nblend/2) + 1, so nbak + nfwd = nblend + 1 (the target  *)
(* colour ends the backward transition and the forward one drops it): an    *)
(* odd nblend gives both lengths equal, an even nblend gives the backward   *)
(* transition one more.                                                     *)
C9_SplitLengths ==
    (pc = "returned" /\ IsBlendOp /\ result.branch = "mid" /\ call.nblend >= 1)
        => /\ result.nbak + result.nfwd = call.nblend + 1
           /\ call.nblend % 2 = 1 => result.nbak = result.nfwd
           /\ call.nblend % 2 = 0 => result.nbak = result.nfwd + 1

C9_Witness ==
    /\ Returned
    /\ IsBlendOp
    /\ result.branch = "mid"
    /\ call.nblend = 3
    /\ result.nbak = 2
    /\ result.nfwd = 2
    /\ Len(result.clist) = result.ncolor

(* C10: for loc = 'mid' and every fractional loc strictly between 0 and 1,  *)
(* with 1 <= nblend < ncolor, both halves of the split are non-empty and    *)
(* add_rgba returns a gradient containing the target colour.                *)
C10_HalvesNonEmpty ==
    (pc = "returned" /\ IsBlendOp /\ Imported
     /\ (call.loc = StrLoc("mid") \/ IsFraction(call.loc))
     /\ call.nblend >= 1 /\ call.nblend < result.ncolor)
        => /\ result.err = "none"
           /\ result.nmid >= 1
           /\ result.nmid < result.norig
           /\ \E i \in 1..Len(result.clist) : result.clist[i] = call.rgba

====
